---------------------------- MODULE Spec2Model ----------------------------
(***************************************************************************)
(* A model of hoki's age-probability engine:                               *)
(*   src/hoki/hrdiagrams.py   HRdiagram (time-weighted grids, stack)       *)
(*   src/hoki/age_utils.py    coordinate resolution, calculate_pdfs,       *)
(*                            multiply_pdfs, AgeWizard                     *)
(*                                                                         *)
(* Conventions                                                             *)
(*   - Python indices are kept 0-based: arrays are functions on 0..n-1.    *)
(*   - A float is a record [n, d]: the exact rational n/d in lowest terms  *)
(*     (d > 0), NaN is 0/0 and +Inf is 1/0, the values IEEE division       *)
(*     gives for 0/0 and x/0.  Rounding error of finite floats is not      *)
(*     modelled; the time axis carries an explicit representation error.   *)
(*   - Python's None is the empty tuple for array-valued fields.           *)
(*   - Log-ages are integers in units of 0.01 dex (6.0 is 600).            *)
(***************************************************************************)
EXTENDS Integers, Sequences, FiniteSets, TLC

\* ------------------------------------------------------------------ bounds
\* Number of age bins (51 in the program, len(np.arange(6, 11.1, 0.1))).
NumBins == 2
\* Number of cells of the flattened grid plane of an HRdiagram (100x100).
GridCells == 1
\* Largest raw (not weighted) grid value.
MaxRaw == 1
\* Largest number of stack() calls followed on one HRdiagram.
MaxCalls == 2

None == <<>>

Bins == 0..(NumBins - 1)
Cells == 0..(GridCells - 1)

RECURSIVE Pow(_, _)
Pow(b, e) == IF e = 0 THEN 1 ELSE b * Pow(b, e - 1)

\* ------------------------------------------------------------ hrdiagrams.py
\* t = BPASS_TIME_BINS = np.arange(6, 11.1, 0.1), in units of 0.01 dex.
HRD_t(b) == 600 + 10 * b

\* BPASS_TIME_INTERVALS[b] = 10^(t+0.05) - 10^(t-0.05): the years a bin spans,
\* a positive sequence growing by 10^0.1 (about 5/4) per bin.  Integer stand-in
\* with that ratio: 5^b * 4^(NumBins-1-b).
BPASS_TIME_INTERVALS(b) == Pow(5, b) * Pow(4, NumBins - 1 - b)

\* _apply_time_weighting: raw grid times the bin's time interval, plane-wise.
apply_time_weighting(raw) ==
    [b \in Bins |-> [c \in Cells |-> raw[b][c] * BPASS_TIME_INTERVALS(b)]]

ZeroPlane == [c \in Cells |-> 0]
PlaneAdd(p, q) == [c \in Cells |-> p[c] + q[c]]

\* An age argument of stack(): None, a log-age (v, units of 0.01 dex) or a
\* linear age in years, 10^(v/100) years.
NoAge == [unit |-> "none", v |-> 0]
LogAge(v) == [unit |-> "log", v |-> v]
YearAge(v) == [unit |-> "yr", v |-> v]
AgeArgs ==
    {NoAge} \cup {LogAge(595 + 5 * k) : k \in 0..(2 * NumBins + 2)}
            \cup {YearAge(600 + 10 * k) : k \in 0..1}

\* Python comparisons on the raw numbers.  Every year value used is at least
\* 10^6, every log value below 20, so a log value is below any year value.
AgeLess(a, b) == IF a.unit = b.unit THEN a.v < b.v ELSE a.unit = "log"
\* age >= 6
AgeAtLeastSix(a) == a.unit = "yr" \/ a.v >= 600
\* age <= 11.1 (t[-1] + 0.1)
AgeAtMostAxisEnd(a) == a.unit = "log" /\ a.v <= HRD_t(NumBins - 1) + 10
\* age > 999999
AgeOverMillion(a) == a.unit = "yr" /\ a.v >= 600

\* np.round(num/den): round half to even.
RoundHalfEven(num, den) ==
    LET q == num \div den
        r == num % den
    IN  IF 2 * r < den THEN q
        ELSE IF 2 * r > den THEN q + 1
        ELSE IF q % 2 = 0 THEN q ELSE q + 1

\* int(np.round(10*(age_log - 6))), age_log in units of 0.01 dex.
AgeBin(age_log) == RoundHalfEven(age_log - 600, 10)

\* Lines 53-76 of stack(): the exception raised before the slice, "" if none,
\* and the limits bound by then.  A limit no branch assigns is unbound and
\* line 79 raises UnboundLocalError.
stack_limits(age_min, age_max) ==
    LET min_given == age_min.unit # "none"
        max_given == age_max.unit # "none"
        both == min_given /\ max_given
        as_log == both /\ AgeAtLeastSix(age_min) /\ AgeAtMostAxisEnd(age_max)
        as_years == both /\ ~as_log /\ AgeOverMillion(age_min) /\ AgeOverMillion(age_max)
        min_bound == ~min_given \/ as_log \/ as_years
        max_bound == ~max_given \/ as_log \/ as_years
    IN  IF min_given /\ ~max_given /\ ~AgeLess(age_min, LogAge(HRD_t(NumBins - 1)))
            THEN [raised |-> "AssertionError", lo |-> 0, hi |-> 0]
        ELSE IF max_given /\ ~min_given /\ ~AgeLess(LogAge(HRD_t(0)), age_max)
            THEN [raised |-> "AssertionError", lo |-> 0, hi |-> 0]
        ELSE IF both /\ ~AgeLess(age_min, age_max)
            THEN [raised |-> "AssertionError", lo |-> 0, hi |-> 0]
        ELSE IF ~(min_bound /\ max_bound)
            THEN [raised |-> "UnboundLocalError", lo |-> 0, hi |-> 0]
        ELSE [raised |-> "",
              lo |-> IF min_given THEN age_min.v ELSE HRD_t(0),
              hi |-> IF max_given THEN age_max.v ELSE HRD_t(NumBins - 1) + 10]

\* The loop of lines 82-88 for one class: acc += grid[b] for b in the slice
\* [bin_min:bin_max] (both non-negative here), in ascending order.
RECURSIVE stack_loop(_, _, _, _)
stack_loop(acc, grid, b, bin_max) ==
    IF b >= bin_max \/ b > NumBins - 1 THEN acc
    ELSE stack_loop(PlaneAdd(acc, grid[b]), grid, b + 1, bin_max)

VARIABLES
    high_H, medium_H, low_H,          \* HRdiagram: the time-weighted grids
    high_H_stacked, medium_H_stacked, low_H_stacked, all_stacked,
    stack_calls,                      \* history: number of stack() calls made
    last_stack                        \* history: arguments and outcome of the last call

hrdVars == <<high_H, medium_H, low_H, high_H_stacked, medium_H_stacked,
             low_H_stacked, all_stacked, stack_calls, last_stack>>

RawGrids == [Bins -> [Cells -> 0..MaxRaw]]

\* HRdiagram.__init__
HRdiagram_init ==
    /\ \E hi \in RawGrids, me \in RawGrids, lo \in RawGrids :
          /\ high_H = apply_time_weighting(hi)
          /\ medium_H = apply_time_weighting(me)
          /\ low_H = apply_time_weighting(lo)
    /\ high_H_stacked = ZeroPlane
    /\ medium_H_stacked = ZeroPlane
    /\ low_H_stacked = ZeroPlane
    /\ all_stacked = None
    /\ stack_calls = 0
    /\ last_stack = [age_min |-> NoAge, age_max |-> NoAge, raised |-> ""]

\* HRdiagram.stack(age_min, age_max)
stack(age_min, age_max) ==
    LET lim == stack_limits(age_min, age_max)
        bin_min == AgeBin(lim.lo)
        bin_max == AgeBin(lim.hi)
        hs == stack_loop(high_H_stacked, high_H, bin_min, bin_max)
        ms == stack_loop(medium_H_stacked, medium_H, bin_min, bin_max)
        ls == stack_loop(low_H_stacked, low_H, bin_min, bin_max)
    IN  /\ stack_calls < MaxCalls
        /\ stack_calls' = stack_calls + 1
        /\ last_stack' = [age_min |-> age_min, age_max |-> age_max, raised |-> lim.raised]
        /\ IF lim.raised = ""
           THEN /\ high_H_stacked' = hs
                /\ medium_H_stacked' = ms
                /\ low_H_stacked' = ls
                /\ all_stacked' = PlaneAdd(PlaneAdd(hs, ms), ls)
           ELSE UNCHANGED <<high_H_stacked, medium_H_stacked, low_H_stacked, all_stacked>>
        /\ UNCHANGED <<high_H, medium_H, low_H>>

\* ------------------------------------------- age_utils.py: coordinates
\* Length of an axis coordinate array (100 in the program's grids).
AxisLen == 2
\* Largest axis coordinate and observed value.
MaxCoord == 3
\* Number of rows of the observation table given to the resolver.
NumRows == 2

\* The np.nan appended for an axis that could not be converted.
NanIdx == -1

\* A cell of an observation column: a number, a string float() accepts, a
\* string it rejects, a NaN, or None.
Num(v) == [kind |-> "num", v |-> v]
NumStr(v) == [kind |-> "numstr", v |-> v]
BadStr == [kind |-> "badstr", v |-> 0]
NanVal == [kind |-> "nan", v |-> 0]
NoneVal == [kind |-> "none", v |-> 0]
ObsValues == {Num(v) : v \in 0..MaxCoord} \cup {NumStr(1), BadStr, NanVal, NoneVal}

\* Strictly ascending axis arrays.
AxisArrays ==
    {a \in [0..(AxisLen - 1) -> 0..MaxCoord] :
        \A i \in 0..(AxisLen - 2) : a[i] < a[i + 1]}

Abs(x) == IF x < 0 THEN -x ELSE x

\* float(x): the exception it raises ("" if none) and the value.
py_float(x) ==
    CASE x.kind = "badstr" -> [raised |-> "ValueError", nan |-> FALSE, v |-> 0]
      [] x.kind = "none" -> [raised |-> "TypeError", nan |-> FALSE, v |-> 0]
      [] x.kind = "nan" -> [raised |-> "", nan |-> TRUE, v |-> 0]
      [] OTHER -> [raised |-> "", nan |-> FALSE, v |-> x.v]

\* np.where(abs(coord - v) == abs(coord - v).min())[0]: every index at the
\* minimum distance.  With v NaN every distance and the minimum are NaN and
\* NaN == NaN is False everywhere: the empty array.
np_where_min(coord, f) ==
    IF f.nan THEN {}
    ELSE {i \in DOMAIN coord :
             \A j \in DOMAIN coord : Abs(coord[i] - f.v) <= Abs(coord[j] - f.v)}

\* int(array): the element of a size-1 array, TypeError ("only size-1 arrays
\* can be converted to Python scalars") otherwise.
py_int(arr) ==
    IF Cardinality(arr) = 1
    THEN [raised |-> "", idx |-> CHOOSE i \in arr : TRUE]
    ELSE [raised |-> "TypeError", idx |-> NanIdx]

\* One try/except block of the loop body (lines 209-215, 217-223, 266-272,
\* 274-280): only ValueError is caught, and answered by a warning and np.nan.
axis_index(coord, x) ==
    LET f == py_float(x)
        r == py_int(np_where_min(coord, f))
    IN  IF f.raised = "ValueError" THEN [raised |-> "", warned |-> TRUE, idx |-> NanIdx]
        ELSE IF f.raised # "" THEN [raised |-> f.raised, warned |-> FALSE, idx |-> NanIdx]
        ELSE [raised |-> r.raised, warned |-> FALSE, idx |-> r.idx]

VARIABLES
    model_kind,       \* "HRD" or "CMD": the class of the model object
    T_coord, L_coord, \* the model's axes (col_range, mag_range of a CMD)
    obs_df,           \* the observation table: row -> [x, y] (logT, logL or col, mag)
    T_i, L_i,         \* the index lists being built (col_i, mag_i for a CMD)
    res_row,          \* rows the loop has started
    res_pc,           \* "loop", "returned" or "raised"
    res_raised,       \* the exception that ended the call, its row and axis
    res_warned        \* the <<row, axis>> a warning was issued for

resVars == <<model_kind, T_coord, L_coord, obs_df, T_i, L_i, res_row, res_pc,
             res_raised, res_warned>>

NoRaise == [exc |-> "", row |-> 0, axis |-> ""]

\* The call find_coordinates(obs_df, model) up to the loop.
find_coordinates_init ==
    /\ model_kind \in {"HRD", "CMD"}
    /\ T_coord \in AxisArrays
    /\ L_coord \in AxisArrays
    /\ obs_df \in [0..(NumRows - 1) -> [x : ObsValues, y : ObsValues]]
    /\ T_i = <<>>
    /\ L_i = <<>>
    /\ res_row = 0
    /\ res_pc = "loop"
    /\ res_raised = NoRaise
    /\ res_warned = {}

\* One iteration of the loop over zip(x column, y column).
find_coordinates_row ==
    LET row == obs_df[res_row]
        tx == axis_index(T_coord, row.x)
        ly == axis_index(L_coord, row.y)
    IN  /\ res_pc = "loop"
        /\ res_row < NumRows
        /\ res_row' = res_row + 1
        /\ IF tx.raised # ""
           THEN /\ res_pc' = "raised"
                /\ res_raised' = [exc |-> tx.raised, row |-> res_row, axis |-> "x"]
                /\ UNCHANGED <<T_i, L_i, res_warned>>
           ELSE /\ T_i' = Append(T_i, tx.idx)
                /\ IF ly.raised # ""
                   THEN /\ res_pc' = "raised"
                        /\ res_raised' = [exc |-> ly.raised, row |-> res_row, axis |-> "y"]
                        /\ res_warned' = res_warned \cup
                              (IF tx.warned THEN {<<res_row, "x">>} ELSE {})
                        /\ UNCHANGED L_i
                   ELSE /\ L_i' = Append(L_i, ly.idx)
                        /\ res_warned' = res_warned
                              \cup (IF tx.warned THEN {<<res_row, "x">>} ELSE {})
                              \cup (IF ly.warned THEN {<<res_row, "y">>} ELSE {})
                        /\ UNCHANGED <<res_pc, res_raised>>
        /\ UNCHANGED <<model_kind, T_coord, L_coord, obs_df>>

\* _find_hrd_coordinates: the loop of lines 207-223.
find_hrd_coordinates_row == model_kind = "HRD" /\ find_coordinates_row

\* _find_cmd_coordinates: the loop of lines 264-280.
find_cmd_coordinates_row == model_kind = "CMD" /\ find_coordinates_row

\* return T_i, L_i (line 225) or col_i, mag_i (line 282)
find_coordinates_return ==
    /\ res_pc = "loop"
    /\ res_row = NumRows
    /\ res_pc' = "returned"
    /\ UNCHANGED <<model_kind, T_coord, L_coord, obs_df, T_i, L_i, res_row,
                   res_raised, res_warned>>


\* ------------------------------------------------------------------ floats
RECURSIVE Gcd(_, _)
Gcd(a, b) == IF b = 0 THEN a ELSE Gcd(b, a % b)

NaN == [n |-> 0, d |-> 0]
Inf == [n |-> 1, d |-> 0]
\* n/d for n >= 0, d > 0, in lowest terms.
Frac(n, d) == LET g == Gcd(n, d) IN [n |-> n \div g, d |-> d \div g]
FInt(k) == [n |-> k, d |-> 1]
FZero == FInt(0)

\* IEEE arithmetic on non-negative values.
\* (Common factors are cancelled before multiplying, to keep the integers
\* small.)
FMul(a, b) ==
    IF a = NaN \/ b = NaN THEN NaN
    ELSE IF a = Inf \/ b = Inf THEN (IF a.n = 0 \/ b.n = 0 THEN NaN ELSE Inf)
    ELSE LET g == Gcd(a.n, b.d)
             h == Gcd(b.n, a.d)
         IN  Frac((a.n \div g) * (b.n \div h), (a.d \div h) * (b.d \div g))
FAdd(a, b) ==
    IF a = NaN \/ b = NaN THEN NaN
    ELSE IF a = Inf \/ b = Inf THEN Inf
    ELSE LET g == Gcd(a.d, b.d)
         IN  Frac(a.n * (b.d \div g) + b.n * (a.d \div g), (a.d \div g) * b.d)
FDiv(a, b) ==
    IF a = NaN \/ b = NaN THEN NaN
    ELSE IF b = Inf THEN (IF a = Inf THEN NaN ELSE FZero)
    ELSE IF a = Inf THEN Inf
    ELSE IF b.n = 0 THEN (IF a.n = 0 THEN NaN ELSE Inf)
    ELSE FMul(a, [n |-> b.d, d |-> b.n])
\* a == b and a > b: False whenever a NaN is involved.
FEq(a, b) == a # NaN /\ b # NaN /\ a = b
FGt(a, b) ==
    /\ a # NaN /\ b # NaN /\ b # Inf
    /\ \/ a = Inf
       \/ LET g == Gcd(a.d, b.d) IN a.n * (b.d \div g) > b.n * (a.d \div g)

\* sum of the values of a column, in index order.
RECURSIVE FSumUpTo(_, _)
FSumUpTo(col, k) == IF k < 0 THEN FZero ELSE FAdd(FSumUpTo(col, k - 1), col[k])
FSum(col) == FSumUpTo(col, NumBins - 1)

\* round(x, 2) != 0.0: a NaN is unequal to everything; a finite x rounds to
\* zero up to 0.005 (the half rounds to the even 0.00).
Round2NonZero(x) == x = NaN \/ x = Inf \/ 200 * x.n > x.d

\* area = np.sum([bin_t for bin_t in distribution]); return distribution/area
normalise_1d(distribution) ==
    LET area == FSum(distribution)
    IN  [b \in Bins |-> FDiv(distribution[b], area)]

\* ------------------------------------------- age_utils.py: calculate_pdfs
\* Side of the square grid plane a model is indexed by (100).
GridSize == 2
\* Number of observed sources.
NumSources == 2

Sources == 0..(NumSources - 1)
GridIdx == 0..(GridSize - 1)

\* source_names = ["s" + str(i) for i in range(obs_df.shape[0])]
SourceName(i) == <<"s0", "s1", "s2", "s3", "s4">>[i + 1]

\* hoki.constants.BPASS_TIME_BINS = np.arange(6, 11.1, 0.1), in units of
\* 0.001 dex.  Only 6.0 is exact in binary: the other values carry a
\* representation error, far below 0.005, of either sign (one unit here).
BPASS_TIME_BINS(b) ==
    6000 + 100 * b + (IF b = 0 THEN 0 ELSE IF b % 2 = 1 THEN 1 ELSE -1)

\* The body of the loop of calculate_pdfs for one source (lines 326-345):
\* distrib_i is the cell's value in each of the bins, xi and yi its indices.
pdf_of_source(xi, yi, distrib_i) ==
    IF xi = NanIdx \/ yi = NanIdx
    THEN [b \in Bins |-> FZero]
    ELSE normalise_1d(distrib_i)

\* distrib_i.append(model_i[xi, yi]) for model_i in model
cell_profile(model, xi, yi) ==
    IF xi = NanIdx \/ yi = NanIdx THEN [b \in Bins |-> FZero]
    ELSE [b \in Bins |-> FInt(model[b][xi][yi])]

\* pd.DataFrame(np.array(pdfs).T, columns=source_names) with the time_bins
\* column appended: the columns in order, each a name and its values.
pdf_table(cols) ==
    [i \in 1..(NumSources + 1) |->
        IF i <= NumSources
        THEN [name |-> SourceName(i - 1), values |-> cols[i]]
        ELSE [name |-> "time_bins", values |-> [b \in Bins |-> BPASS_TIME_BINS(b)]]]

VARIABLES
    model,            \* the grid iterated by calculate_pdfs: bin -> x -> y -> value
    x_coord, y_coord, \* find_coordinates' result: per source an index or NanIdx
    calc_pdfs,        \* the local list pdfs
    calc_i,           \* the loop position
    pdf_df            \* the returned table, None before the return

calcVars == <<model, x_coord, y_coord, calc_pdfs, calc_i, pdf_df>>

\* calculate_pdfs(obs_df, model) up to the loop (lines 310-322).
calculate_pdfs_init ==
    /\ model \in [Bins -> [GridIdx -> [GridIdx -> 0..MaxRaw]]]
    /\ x_coord \in [Sources -> GridIdx \cup {NanIdx}]
    /\ y_coord \in [Sources -> GridIdx \cup {NanIdx}]
    /\ calc_pdfs = <<>>
    /\ calc_i = 0
    /\ pdf_df = None

\* One iteration of the loop of lines 325-345.
calculate_pdfs_source ==
    /\ pdf_df = None
    /\ calc_i < NumSources
    /\ LET xi == x_coord[calc_i]
           yi == y_coord[calc_i]
       IN  calc_pdfs' = Append(calc_pdfs, pdf_of_source(xi, yi, cell_profile(model, xi, yi)))
    /\ calc_i' = calc_i + 1
    /\ UNCHANGED <<model, x_coord, y_coord, pdf_df>>

\* Lines 348-352: the table is built and returned.
calculate_pdfs_return ==
    /\ pdf_df = None
    /\ calc_i = NumSources
    /\ pdf_df' = pdf_table(calc_pdfs)
    /\ UNCHANGED <<model, x_coord, y_coord, calc_pdfs, calc_i>>

\* -------------------------------------------- age_utils.py: multiply_pdfs
ColumnNames(df) == {df[i].name : i \in DOMAIN df}

\* drop() as with errors='ignore': the labels that are columns are dropped
\* although another label is none.
drop_not_you_found(df, not_you) ==
    IF not_you = {} THEN [df |-> df, warned |-> FALSE]
    ELSE [df |-> SelectSeq(df, LAMBDA c : c.name \notin not_you),
          warned |-> ~(not_you \subseteq ColumnNames(df))]

\* Lines 377-384: pdf_df.drop(labels=not_you, axis=1) raises KeyError when a
\* label is no column and then drops nothing; the KeyError is answered by a
\* warning and the table is left as it was.
drop_not_you(df, not_you) ==
    IF not_you = {} THEN [df |-> df, warned |-> FALSE]
    ELSE IF not_you \subseteq ColumnNames(df)
    THEN [df |-> SelectSeq(df, LAMBDA c : c.name \notin not_you), warned |-> FALSE]
    ELSE [df |-> df, warned |-> TRUE]

\* Line 388: "time_bins" not in col.  No source name of the model contains
\* that text, so the test is inequality with the axis column's name.
source_columns(df) == SelectSeq(df, LAMBDA c : c.name # "time_bins")

\* Line 391: the smart filter.
smart_columns(columns) == SelectSeq(columns, LAMBDA c : Round2NonZero(FSum(c.values)))

\* Lines 374 and 395-396: combined_pdf = [1] * n; combined_pdf *= column, for
\* the first k columns; bin b of the result.
RECURSIVE multiply_columns_bin(_, _, _)
multiply_columns_bin(columns, k, b) ==
    IF k = 0 THEN FInt(1)
    ELSE FMul(multiply_columns_bin(columns, k - 1, b), columns[k].values[b])
\* multiply_columns with an accumulator that has no neutral start: with no
\* column to multiply the product is zero in every bin.
multiply_columns_no_start(columns, k) ==
    [b \in Bins |-> IF k = 0 THEN FZero ELSE multiply_columns_bin(columns, k, b)]
multiply_columns(columns, k) == [b \in Bins |-> multiply_columns_bin(columns, k, b)]

\* multiply_pdfs(pdf_df, not_you, smart): the 'pdf' column of the returned
\* table and whether the KeyError warning was issued.  not_you is the set of
\* the labels listed; None and the empty list are the empty set.
multiply_pdfs(df, not_you, smart) ==
    LET dropped == drop_not_you(df, not_you)
        columns == source_columns(dropped.df)
        used == IF smart THEN smart_columns(columns) ELSE columns
    IN  [pdf |-> normalise_1d(multiply_columns(used, Len(used))),
         warned |-> dropped.warned]

\* ------------------------------------------------ age_utils.py: AgeWizard
\* DataFrame.fillna(0)
fillna0(df) ==
    [i \in DOMAIN df |->
        IF df[i].name = "time_bins" THEN df[i]
        ELSE [name |-> df[i].name,
              values |-> [b \in Bins |-> IF df[i].values[b] = NaN THEN FZero
                                         ELSE df[i].values[b]]]]

\* The labels an exclusion list is drawn from: the sources and a name that is
\* no column.
Labels == {SourceName(i) : i \in Sources} \cup {"nope"}

\* The age_range bounds offered, in units of 0.001 dex.
AgeRangeValues == {5950 + 50 * k : k \in 0..(NumBins + 2)}

VARIABLES
    pdfs,             \* AgeWizard.pdfs
    multiplied_pdf,   \* AgeWizard.multiplied_pdf: the 'pdf' column, or None
    _most_likely_age, \* AgeWizard._most_likely_age
    last_call,        \* history: the arguments of the last explicit multiply_pdfs call
    wiz_op,           \* history: the last method called
    wiz_args,         \* history: its arguments other than those in last_call
    wiz_ret,          \* history: what it returned
    wiz_warned        \* history: whether it issued a warning

wizVars == <<pdfs, multiplied_pdf, _most_likely_age, last_call, wiz_op, wiz_args,
             wiz_ret, wiz_warned>>

NoCall == [made |-> FALSE, not_you |-> {}, smart |-> TRUE]

\* AgeWizard.__init__ (lines 64-71).  Each source is unresolved or sits in a
\* cell of its own of a time-weighted grid: in each bin the cell is empty or
\* holds one star, weighted by the bin's time interval.  obs_df, model and
\* coordinates are not kept, no method modelled reads them afterwards.
AgeWizard_init ==
    /\ \E resolved \in [Sources -> BOOLEAN], occupied \in [Sources -> [Bins -> 0..1]] :
          pdfs = fillna0(pdf_table(
                    [i \in 1..NumSources |->
                        pdf_of_source(IF resolved[i - 1] THEN 0 ELSE NanIdx, 0,
                            [b \in Bins |->
                                FInt(occupied[i - 1][b] * BPASS_TIME_INTERVALS(b))])]))
    /\ multiplied_pdf = None
    /\ _most_likely_age = None
    /\ last_call = NoCall
    /\ wiz_op = "init"
    /\ wiz_args = <<>>
    /\ wiz_ret = None
    /\ wiz_warned = FALSE

\* AgeWizard.multiply_pdfs(not_you, return_df=True, smart)
AgeWizard_multiply_pdfs(not_you, smart) ==
    \E r \in {multiply_pdfs(pdfs, not_you, smart)} :
        /\ multiplied_pdf' = r.pdf
        /\ last_call' = [made |-> TRUE, not_you |-> not_you, smart |-> smart]
        /\ wiz_op' = "multiply_pdfs"
        /\ wiz_args' = <<>>
        /\ wiz_ret' = r.pdf
        /\ wiz_warned' = r.warned
        /\ UNCHANGED <<pdfs, _most_likely_age>>

\* max(self.multiplied_pdf.pdf): Python's max keeps the first item unless a
\* later one compares greater.
RECURSIVE py_max(_, _)
py_max(col, k) ==
    IF k = 0 THEN col[0]
    ELSE LET m == py_max(col, k - 1) IN IF FGt(col[k], m) THEN col[k] ELSE m

\* Lines 105-106: the axis values of the rows whose pdf equals the maximum.
RECURSIVE ages_at(_, _, _)
ages_at(col, m, k) ==
    IF k < 0 THEN <<>>
    ELSE IF FEq(col[k], m) THEN Append(ages_at(col, m, k - 1), BPASS_TIME_BINS(k))
    ELSE ages_at(col, m, k - 1)

\* most_likely_age filling the cache _most_likely_age it reads.
most_likely_age_memo(cached, combined) ==
    IF cached # None THEN [cached |-> cached, pdf |-> combined, ret |-> cached, warned |-> FALSE]
    ELSE LET pdf == IF combined = None THEN multiply_pdfs(pdfs, {}, TRUE).pdf ELSE combined
             ret == ages_at(pdf, py_max(pdf, NumBins - 1), NumBins - 1)
         IN  [cached |-> ret, pdf |-> pdf, ret |-> ret, warned |-> combined = None]

\* The property AgeWizard.most_likely_age, as a step on
\* <<_most_likely_age, multiplied_pdf>>: the new pair and the value returned.
most_likely_age(cached, combined) ==
    IF cached # None THEN [cached |-> cached, pdf |-> combined, ret |-> cached, warned |-> FALSE]
    ELSE LET pdf == IF combined = None THEN multiply_pdfs(pdfs, {}, TRUE).pdf ELSE combined
         IN  [cached |-> cached, pdf |-> pdf,
              ret |-> ages_at(pdf, py_max(pdf, NumBins - 1), NumBins - 1),
              warned |-> combined = None]

AgeWizard_most_likely_age ==
    \E r \in {most_likely_age(_most_likely_age, multiplied_pdf)} :
        /\ multiplied_pdf' = r.pdf
        /\ _most_likely_age' = r.cached
        /\ wiz_op' = "most_likely_age"
        /\ wiz_args' = <<>>
        /\ wiz_ret' = r.ret
        /\ wiz_warned' = r.warned
        /\ UNCHANGED <<pdfs, last_call>>

\* round(self.pdfs.time_bins, 2), in units of 0.001 dex.
round2(t) == 10 * RoundHalfEven(t, 10)

\* The sum of a column over the rows of a mask.
RECURSIVE masked_sum(_, _, _)
masked_sum(col, mask, k) ==
    IF k < 0 THEN FZero
    ELSE IF mask[k] THEN FAdd(masked_sum(col, mask, k - 1), col[k])
    ELSE masked_sum(col, mask, k - 1)

\* calculate_p_given_age_range taking age_range[0] for the lower bound and
\* age_range[1] for the upper one.
calculate_p_given_age_range_as_given(df, age_range) ==
    LET time_bins == df[Len(df)].values
        mask == [b \in Bins |-> round2(time_bins[b]) >= age_range[1]
                                  /\ round2(time_bins[b]) <= age_range[2]]
        cols == source_columns(df)
    IN  [i \in 1..Len(cols) |-> masked_sum(cols[i].values, mask, NumBins - 1)]

\* calculate_p_given_age_range(age_range): lines 135-140.
calculate_p_given_age_range(df, age_range) ==
    LET lo == IF age_range[1] <= age_range[2] THEN age_range[1] ELSE age_range[2]
        hi == IF age_range[1] <= age_range[2] THEN age_range[2] ELSE age_range[1]
        time_bins == df[Len(df)].values
        mask == [b \in Bins |-> round2(time_bins[b]) >= lo /\ round2(time_bins[b]) <= hi]
        cols == source_columns(df)
    IN  [i \in 1..Len(cols) |-> masked_sum(cols[i].values, mask, NumBins - 1)]

AgeWizard_calculate_p_given_age_range(age_range) ==
    /\ wiz_op' = "calculate_p_given_age_range"
    /\ wiz_args' = age_range
    /\ wiz_ret' = calculate_p_given_age_range(pdfs, age_range)
    /\ wiz_warned' = FALSE
    /\ UNCHANGED <<pdfs, multiplied_pdf, _most_likely_age, last_call>>

\* ------------------------------------------------------- specifications
vars == <<hrdVars, resVars, calcVars, wizVars>>

\* Each specification follows one object; the others are held at the start
\* of one fixed run of theirs.
HrdIdle ==
    /\ high_H = apply_time_weighting([b \in Bins |-> [c \in Cells |-> 0]])
    /\ medium_H = high_H
    /\ low_H = high_H
    /\ high_H_stacked = ZeroPlane
    /\ medium_H_stacked = ZeroPlane
    /\ low_H_stacked = ZeroPlane
    /\ all_stacked = None
    /\ stack_calls = 0
    /\ last_stack = [age_min |-> NoAge, age_max |-> NoAge, raised |-> ""]

ResIdle ==
    /\ model_kind = "HRD"
    /\ T_coord = [i \in 0..(AxisLen - 1) |-> i]
    /\ L_coord = T_coord
    /\ obs_df = [r \in 0..(NumRows - 1) |-> [x |-> Num(0), y |-> Num(0)]]
    /\ T_i = <<>>
    /\ L_i = <<>>
    /\ res_row = 0
    /\ res_pc = "loop"
    /\ res_raised = NoRaise
    /\ res_warned = {}

CalcIdle ==
    /\ model = [b \in Bins |-> [x \in GridIdx |-> [y \in GridIdx |-> 0]]]
    /\ x_coord = [s \in Sources |-> 0]
    /\ y_coord = x_coord
    /\ calc_pdfs = <<>>
    /\ calc_i = 0
    /\ pdf_df = None

WizIdle ==
    /\ pdfs = None
    /\ multiplied_pdf = None
    /\ _most_likely_age = None
    /\ last_call = NoCall
    /\ wiz_op = "init"
    /\ wiz_args = <<>>
    /\ wiz_ret = None
    /\ wiz_warned = FALSE

\* HRdiagram and its stack().
InitStack == HRdiagram_init /\ ResIdle /\ CalcIdle /\ WizIdle
StackCall ==
    /\ \E age_min \in AgeArgs, age_max \in AgeArgs : stack(age_min, age_max)
    /\ UNCHANGED <<resVars, calcVars, wizVars>>
NextStack == StackCall
SpecStack == InitStack /\ [][NextStack]_vars

\* _find_hrd_coordinates and _find_cmd_coordinates.
InitResolve == find_coordinates_init /\ HrdIdle /\ CalcIdle /\ WizIdle
HrdRow == find_hrd_coordinates_row /\ UNCHANGED <<hrdVars, calcVars, wizVars>>
CmdRow == find_cmd_coordinates_row /\ UNCHANGED <<hrdVars, calcVars, wizVars>>
ResolveReturn == find_coordinates_return /\ UNCHANGED <<hrdVars, calcVars, wizVars>>
NextResolve == HrdRow \/ CmdRow \/ ResolveReturn
SpecResolve == InitResolve /\ [][NextResolve]_vars

\* calculate_pdfs.
InitCalc == calculate_pdfs_init /\ HrdIdle /\ ResIdle /\ WizIdle
CalcSource == calculate_pdfs_source /\ UNCHANGED <<hrdVars, resVars, wizVars>>
CalcReturn == calculate_pdfs_return /\ UNCHANGED <<hrdVars, resVars, wizVars>>
NextCalc == CalcSource \/ CalcReturn
SpecCalc == InitCalc /\ [][NextCalc]_vars

\* AgeWizard: multiply_pdfs and most_likely_age.
InitWizard == AgeWizard_init /\ HrdIdle /\ ResIdle /\ CalcIdle
MultiplyPdfs ==
    /\ \E not_you \in SUBSET Labels, smart \in BOOLEAN :
          AgeWizard_multiply_pdfs(not_you, smart)
    /\ UNCHANGED <<hrdVars, resVars, calcVars>>
MostLikelyAge == AgeWizard_most_likely_age /\ UNCHANGED <<hrdVars, resVars, calcVars>>
NextWizard == MultiplyPdfs \/ MostLikelyAge
SpecWizard == InitWizard /\ [][NextWizard]_vars

\* AgeWizard: calculate_p_given_age_range.
PGivenAgeRange ==
    /\ \E lo \in AgeRangeValues, hi \in AgeRangeValues :
          AgeWizard_calculate_p_given_age_range(<<lo, hi>>)
    /\ UNCHANGED <<hrdVars, resVars, calcVars>>
NextRange == PGivenAgeRange
SpecRange == InitWizard /\ [][NextRange]_vars

\* ------------------------------------------------------------- properties
\* The plane-wise sum of grid[b] over the bins b of the axis with lo <= b < hi.
RECURSIVE RangeSumUpTo(_, _, _, _)
RangeSumUpTo(grid, lo, hi, k) ==
    IF k < 0 THEN ZeroPlane
    ELSE IF lo <= k /\ k < hi THEN PlaneAdd(RangeSumUpTo(grid, lo, hi, k - 1), grid[k])
    ELSE RangeSumUpTo(grid, lo, hi, k - 1)
RangeSum(grid, lo, hi) == RangeSumUpTo(grid, lo, hi, NumBins - 1)

\* The stacked grids are those of a stack over [lo, hi) alone.
StackedIs(lo, hi) ==
    /\ high_H_stacked = RangeSum(high_H, lo, hi)
    /\ medium_H_stacked = RangeSum(medium_H, lo, hi)
    /\ low_H_stacked = RangeSum(low_H, lo, hi)
    /\ all_stacked = PlaneAdd(PlaneAdd(RangeSum(high_H, lo, hi), RangeSum(medium_H, lo, hi)),
                              RangeSum(low_H, lo, hi))

\* C1: after any sequence of stack() calls, the stacked grid of each class is
\* the sum of its weighted grids over [bin_min, bin_max) of the most recent
\* call alone, and all_stacked the sum of the three (overwrite, not
\* accumulation).  Stated for a most recent call that returned.
C1_StackOverwrites ==
    (stack_calls > 0 /\ last_stack.raised = "") =>
        LET lim == stack_limits(last_stack.age_min, last_stack.age_max)
        IN  StackedIs(AgeBin(lim.lo), AgeBin(lim.hi))

\* C7: stack() with exactly one bound omitted (the other inside the axis)
\* succeeds; on a fresh diagram stack(age_min=a) sums the bins from a's to the
\* last one and stack(age_max=b) the bins from 0 up to b's.
C7_OneBoundDefaults ==
    LET a == last_stack.age_min
        b == last_stack.age_max
        only_min == a.unit = "log" /\ b.unit = "none" /\ a.v >= HRD_t(0)
                        /\ a.v < HRD_t(NumBins - 1)
        only_max == a.unit = "none" /\ b.unit = "log" /\ b.v > HRD_t(0)
                        /\ b.v <= HRD_t(NumBins - 1) + 10
    IN  (stack_calls > 0 /\ (only_min \/ only_max)) =>
            /\ last_stack.raised = ""
            /\ stack_calls = 1 =>
                  StackedIs(IF only_min THEN AgeBin(a.v) ELSE 0,
                            IF only_min THEN NumBins ELSE AgeBin(b.v))

\* The lowest index among the cells of an axis nearest to v.
LowestNearest(coord, v) ==
    CHOOSE i \in DOMAIN coord :
        \A j \in DOMAIN coord :
            \/ Abs(coord[i] - v) < Abs(coord[j] - v)
            \/ Abs(coord[i] - v) = Abs(coord[j] - v) /\ i <= j

\* The cell coerces to a real number.
IsReal(x) == x.kind \in {"num", "numstr"}
\* The cell cannot be resolved: not coercible, or NaN.
Malformed(x) == x.kind \in {"badstr", "nan", "none"}

RaisedAt(k, axis) == res_pc = "raised" /\ res_raised.row = k /\ res_raised.axis = axis

\* C4: for every observed axis value that coerces to a real number the
\* resolver returns the smallest index among the cells at minimum distance
\* (an exact match its own index, a tie the lower index).
C4_NearestLowestIndex ==
    \A k \in 0..(res_row - 1) :
        /\ IsReal(obs_df[k].x) =>
              /\ ~RaisedAt(k, "x")
              /\ k + 1 <= Len(T_i) => T_i[k + 1] = LowestNearest(T_coord, obs_df[k].x.v)
        /\ IsReal(obs_df[k].y) =>
              /\ ~RaisedAt(k, "y")
              /\ k + 1 <= Len(L_i) => L_i[k + 1] = LowestNearest(L_coord, obs_df[k].y.v)

\* C5: a malformed value on one axis of one row never aborts the resolution;
\* the two lists returned have one entry per row, in row order, the unresolved
\* marker exactly at the malformed cells, every other cell resolved as on its
\* own.
C5_MalformedIsolated ==
    /\ res_pc = "raised" =>
          ~Malformed(IF res_raised.axis = "x" THEN obs_df[res_raised.row].x
                     ELSE obs_df[res_raised.row].y)
    /\ res_pc = "returned" =>
          /\ Len(T_i) = NumRows
          /\ Len(L_i) = NumRows
          /\ \A k \in 0..(NumRows - 1) :
                /\ T_i[k + 1] = IF Malformed(obs_df[k].x) THEN NanIdx
                                ELSE LowestNearest(T_coord, obs_df[k].x.v)
                /\ L_i[k + 1] = IF Malformed(obs_df[k].y) THEN NanIdx
                                ELSE LowestNearest(L_coord, obs_df[k].y.v)

\* Source i of calculate_pdfs has both indices resolved.
Resolved(i) == x_coord[i] # NanIdx /\ y_coord[i] # NanIdx
\* The cell of source i holds zero in every bin.
ZeroCell(i) == \A b \in Bins : model[b][x_coord[i]][y_coord[i]] = 0
AllZero(col) == \A b \in Bins : col[b] = FZero

\* C2: in the table calculate_pdfs returns, a column of a source with both
\* indices resolved sums to 1 over the bins, a column of a source with an
\* unresolved index is zero in every bin, and the columns are the sources in
\* row order followed by time_bins.
C2_ColumnsSumToOne ==
    pdf_df # None =>
        /\ Len(pdf_df) = NumSources + 1
        /\ pdf_df[NumSources + 1].name = "time_bins"
        /\ \A i \in Sources :
              /\ pdf_df[i + 1].name = SourceName(i)
              /\ Resolved(i) => FSum(pdf_df[i + 1].values) = FInt(1)
              /\ ~Resolved(i) => AllZero(pdf_df[i + 1].values)

\* C9: a source with both indices resolved whose cell holds zero in every bin
\* gets a column that is zero in every bin (never NaN or Inf).
C9_ZeroProfileIsZero ==
    pdf_df # None =>
        \A i \in Sources :
            (Resolved(i) /\ ZeroCell(i)) => AllZero(pdf_df[i + 1].values)

\* The product, in bin b, of the columns of the sources 0..k that are in S.
RECURSIVE ProductOf(_, _, _, _)
ProductOf(df, S, k, b) ==
    IF k < 0 THEN FInt(1)
    ELSE IF k \in S THEN FMul(ProductOf(df, S, k - 1, b), df[k + 1].values[b])
    ELSE ProductOf(df, S, k - 1, b)

\* The combined PDF of the sources in S: their product divided by its sum.
CombinedOf(df, S) ==
    LET product == [b \in Bins |-> ProductOf(df, S, NumSources - 1, b)]
        total == FSum(product)
    IN  [b \in Bins |-> FDiv(product[b], total)]

\* The sources whose column does not sum to zero.
NonZeroSources(df) == {i \in Sources : FSum(df[i + 1].values) # FZero}

\* C3: for a PDF table with an all-zero source column (and no exclusion list),
\* multiply_pdfs with smart=True returns the combined PDF of the columns whose
\* sum is non-zero, and with smart=False a combined PDF that is zero in every
\* bin (not NaN).
C3_ZeroColumnCombination ==
    (/\ wiz_op = "multiply_pdfs"
     /\ last_call.not_you = {}
     /\ \E i \in Sources : AllZero(pdfs[i + 1].values)) =>
        /\ last_call.smart => multiplied_pdf = CombinedOf(pdfs, NonZeroSources(pdfs))
        /\ ~last_call.smart => AllZero(multiplied_pdf)

\* The axis values, in ascending order, of the bins 0..k where pdf is at its
\* maximum (no bin when the values are NaN: nothing compares equal to NaN).
RECURSIVE AgesAtMaximum(_, _)
AgesAtMaximum(pdf, k) ==
    IF k < 0 THEN <<>>
    ELSE IF pdf[k] # NaN /\ \A b \in Bins : ~FGt(pdf[b], pdf[k])
    THEN Append(AgesAtMaximum(pdf, k - 1), BPASS_TIME_BINS(k))
    ELSE AgesAtMaximum(pdf, k - 1)

\* C6: reading most_likely_age returns the axis values at the maximum of the
\* current combined PDF, which is the one of the most recent multiply_pdfs
\* call, or, when there was none, the one computed with the default
\* parameters (no exclusions, smart=True) and stored by the read itself.
C6_MostLikelyAgeIsCurrent ==
    wiz_op = "most_likely_age" =>
        LET current == IF last_call.made
                       THEN multiply_pdfs(pdfs, last_call.not_you, last_call.smart).pdf
                       ELSE CombinedOf(pdfs, NonZeroSources(pdfs))
        IN  /\ multiplied_pdf = current
            /\ wiz_ret = AgesAtMaximum(current, NumBins - 1)
            /\ wiz_warned => ~last_call.made

\* C6 witness: a read after an explicit call with non-default parameters,
\* whose answer differs from the one the default parameters give.
C6_Witness ==
    /\ wiz_op = "most_likely_age"
    /\ last_call.made
    /\ last_call.not_you = {SourceName(0)}
    /\ wiz_ret # <<>>
    /\ wiz_ret # AgesAtMaximum(CombinedOf(pdfs, NonZeroSources(pdfs)), NumBins - 1)

\* C10: an exclusion list holding a name that is no column of the table makes
\* multiply_pdfs warn and return the combined PDF of a call with no exclusion
\* list: no column is dropped, the listed names that exist included.
C10_UnknownLabelDropsNothing ==
    (wiz_op = "multiply_pdfs" /\ ~(last_call.not_you \subseteq ColumnNames(pdfs))) =>
        /\ wiz_warned
        /\ multiplied_pdf =
              CombinedOf(pdfs, IF last_call.smart THEN NonZeroSources(pdfs) ELSE Sources)
        /\ wiz_ret = multiplied_pdf

\* C10 witness: the list names an unknown label and the source s0, and
\* dropping s0 would have changed the combined PDF.
C10_Witness ==
    /\ wiz_op = "multiply_pdfs"
    /\ last_call.not_you = {SourceName(0), "nope"}
    /\ wiz_warned
    /\ multiplied_pdf[0] # NaN
    /\ multiplied_pdf # CombinedOf(pdfs, Sources \ {0})

\* The sum of a column over a set of bins.
RECURSIVE MassIn(_, _)
MassIn(col, S) ==
    IF S = {} THEN FZero
    ELSE LET b == CHOOSE x \in S : TRUE IN FAdd(col[b], MassIn(col, S \ {b}))

\* The axis value of bin b rounded to 2 decimals: 6.0 + 0.1 b.
RoundedAxis(b) == 6000 + 100 * b

\* C8: calculate_p_given_age_range returns, per source in column order, the
\* sum of its PDF over the bins whose rounded axis value lies between the
\* smaller and the larger bound inclusive, whichever order they are given in,
\* with no entry for time_bins.
C8_ProbabilityInAgeRange ==
    wiz_op = "calculate_p_given_age_range" =>
        LET lo == IF wiz_args[1] <= wiz_args[2] THEN wiz_args[1] ELSE wiz_args[2]
            hi == IF wiz_args[1] <= wiz_args[2] THEN wiz_args[2] ELSE wiz_args[1]
            inside == {b \in Bins : lo <= RoundedAxis(b) /\ RoundedAxis(b) <= hi}
        IN  /\ DOMAIN wiz_ret = 1..NumSources
            /\ \A i \in Sources : wiz_ret[i + 1] = MassIn(pdfs[i + 1].values, inside)
            /\ wiz_ret = calculate_p_given_age_range(pdfs, <<wiz_args[2], wiz_args[1]>>)

\* C8 witness: the bounds are given larger first and cut a source's PDF in
\* two: the mass returned for it is a part of it, neither nothing nor all.
C8_Witness ==
    /\ wiz_op = "calculate_p_given_age_range"
    /\ wiz_args[1] > wiz_args[2]
    /\ wiz_ret[1] \notin {FZero, FInt(1)}

\* The sources whose column is multiplied by the last multiply_pdfs call: a
\* list of existing names removes the sources it names, a list with an unknown
\* name removes none, and smart=True removes the columns that sum to zero.
SurvivingSources ==
    LET kept == IF last_call.not_you \subseteq ColumnNames(pdfs)
                THEN {i \in Sources : SourceName(i) \notin last_call.not_you}
                ELSE Sources
    IN  IF last_call.smart THEN kept \cap NonZeroSources(pdfs) ELSE kept

\* C11: when no source column survives exclusion and smart filtering,
\* multiply_pdfs does not raise and returns the normalised empty product: a
\* combined PDF with the same value in every age bin, summing to 1.
C11_EmptyProductIsUniform ==
    (wiz_op = "multiply_pdfs" /\ SurvivingSources = {}) =>
        /\ wiz_ret = multiplied_pdf
        /\ \A b \in Bins : multiplied_pdf[b] = multiplied_pdf[0]
        /\ multiplied_pdf[0] \notin {NaN, Inf}
        /\ FSum(multiplied_pdf) = FInt(1)

\* C11 witness: source s0 has a non-zero column and is the one name excluded,
\* every other source column is all-zero and removed by smart=True, and the
\* combined PDF returned is 1/NumBins in every bin.
C11_Witness ==
    /\ wiz_op = "multiply_pdfs"
    /\ last_call.not_you = {SourceName(0)}
    /\ last_call.smart
    /\ ~AllZero(pdfs[1].values)
    /\ \A i \in Sources \ {0} : AllZero(pdfs[i + 1].values)
    /\ multiplied_pdf = [b \in Bins |-> Frac(1, NumBins)]

====
